---------------------------- MODULE Spec2Model ----------------------------
(***************************************************************************)
(* A model of the PDF form scripts under src/skills/pdf/scripts:           *)
(*   check_boxes.py    _intersects, validate                               *)
(*   extract_fields.py _full_field_id, _field_dict, extract_field_info     *)
(*   fill_fields.py    _full_field_id, _get_field_info, _validate_value,   *)
(*                     main                                                *)
(*                                                                         *)
(* Every function activation is one variable holding the activation's      *)
(* locals as a record.  A Python list is a sequence (index k in Python is  *)
(* index k+1 here), an optional value (a missing dict key, None) is a      *)
(* sequence of length 0 or 1.  Each part of the program has its own        *)
(* specification; the activations it does not use stay Idle.               *)
(***************************************************************************)
EXTENDS Integers, Sequences, FiniteSets, TLC

VARIABLES isect, chk, walk, cls, ext, fill

vars == <<isect, chk, walk, cls, ext, fill>>

Idle == [pc |-> "idle"]

Absent == <<>>

Some(v) == <<v>>

Range(s) == {s[k] : k \in DOMAIN s}

(***************************************************************************)
(* check_boxes.py                                                          *)
(***************************************************************************)

\* Largest coordinate of the rectangles handed to _intersects.
MaxCoord == 3

\* Number of form fields of the largest fields.json handed to validate.
NumFields == 4

\* check_boxes.py line 43: the failure count at which validate gives up.
MaxErrors == 20

\* check_boxes.py line 48: the font size of an entry_text that gives none.
DefaultFontSize == 14

\* A rectangle [x0, y0, x1, y1] is the tuple <<x0, y0, x1, y1>>.
GridRects ==
  {<<x0, y0, x1, y1>> : x0 \in 0..MaxCoord, y0 \in 0..MaxCoord,
                        x1 \in 0..MaxCoord, y1 \in 0..MaxCoord}

\* The rectangles with x0 <= x1 and y0 <= y1.
OrderedRects == {r \in GridRects : r[1] <= r[3] /\ r[2] <= r[4]}

Intersects_closed(a, b) ==
  ~(a[1] > b[3] \/ a[3] < b[1] \/ a[2] > b[4] \/ a[4] < b[2])

\* _intersects(a, b)
Intersects(a, b) ==
  ~(a[1] >= b[3] \/ a[3] <= b[1] \/ a[2] >= b[4] \/ a[4] <= b[2])

\* The fields of fields.json that validate reads.  entry_text is Absent or
\* Some([font_size |-> Absent or Some(n)]).
Field(label, entry, page, text) ==
  [label_bounding_box |-> label, entry_bounding_box |-> entry,
   page_number |-> page, entry_text |-> text]

Text(fs) == Some([font_size |-> fs])

FieldCatalogue ==
  { Field(<<0, 0, 20, 10>>, <<0, 0, 20, 10>>, 1, Text(Absent)),
    Field(<<0, 0, 20, 10>>, <<10, 0, 20, 5>>, 1, Text(Some(14))),
    Field(<<0, 0, 10, 10>>, <<0, 0, 10, 10>>, 1, Absent),
    Field(<<0, 20, 10, 34>>, <<10, 20, 20, 34>>, 1, Text(Some(14))),
    Field(<<0, 0, 10, 10>>, <<0, 12, 10, 22>>, 2, Text(Some(10))),
    Field(<<0, 40, 10, 50>>, <<10, 40, 20, 52>>, 2, Text(Absent)) }

FormFieldLists ==
  UNION {[1..n -> FieldCatalogue] : n \in 0..NumFields}

\* validate lines 21-24: rects = [(label, "label", f), (entry, "entry", f), ...];
\* the field f is kept as its index in form_fields.
RectsOf(form_fields) ==
  [k \in 1..(2 * Len(form_fields)) |->
     LET f == (k + 1) \div 2 IN
     IF k % 2 = 1
       THEN [rect |-> form_fields[f].label_bounding_box, type |-> "label", field |-> f]
       ELSE [rect |-> form_fields[f].entry_bounding_box, type |-> "entry", field |-> f]]

\* A line of the returned messages: its kind and the rects (indices) it names.
Msg(kind, a, b) == [kind |-> kind, a |-> a, b |-> b]

\* validate line 48: fi["entry_text"].get("font_size", 14)
FontSize(entry_text) ==
  IF entry_text[1].font_size = Absent THEN DefaultFontSize
  ELSE entry_text[1].font_size[1]

TooShort_le(height, font_size) == height <= font_size

\* validate line 50: if height < font_size
TooShort(height, font_size) == height < font_size

\* validate lines 17-26: the state on entering the loop over rects.
ValidateStart(form_fields) ==
  [pc |-> "loop", form_fields |-> form_fields, rects |-> RectsOf(form_fields),
   i |-> 1, j |-> 2, errors |-> 0,
   messages |-> <<Msg("Checking", Len(form_fields), 0)>>]

\* validate lines 28-45: one pass of the inner loop, for the pair (i, j).
PairStep ==
  /\ chk.pc = "loop"
  /\ chk.i <= Len(chk.rects)
  /\ chk.j <= Len(chk.rects)
  /\ LET ri == chk.rects[chk.i]
         rj == chk.rects[chk.j]
         fi == chk.form_fields[ri.field]
         fj == chk.form_fields[rj.field]
     IN IF fi.page_number # fj.page_number
          THEN chk' = [chk EXCEPT !.j = @ + 1]
          ELSE IF Intersects(ri.rect, rj.rect)
            THEN LET errors == chk.errors + 1
                     kind == IF ri.field = rj.field THEN "overlap_self" ELSE "overlap"
                     messages == Append(chk.messages, Msg(kind, chk.i, chk.j))
                 IN IF errors >= MaxErrors
                      THEN chk' = [chk EXCEPT !.errors = errors,
                                     !.messages = Append(messages, Msg("TooMany", 0, 0)),
                                     !.pc = "returned"]
                      ELSE chk' = [chk EXCEPT !.errors = errors,
                                     !.messages = messages, !.j = @ + 1]
            ELSE chk' = [chk EXCEPT !.j = @ + 1]
  /\ UNCHANGED <<isect, walk, cls, ext, fill>>

\* validate lines 47-55: after the inner loop, the height check of rect i,
\* then the next i.
HeightStep ==
  /\ chk.pc = "loop"
  /\ chk.i <= Len(chk.rects)
  /\ chk.j > Len(chk.rects)
  /\ LET ri == chk.rects[chk.i]
         fi == chk.form_fields[ri.field]
         short == /\ ri.type = "entry"
                  /\ fi.entry_text # Absent
                  /\ TooShort(ri.rect[4] - ri.rect[2], FontSize(fi.entry_text))
     IN chk' = [chk EXCEPT
                  !.errors = IF short THEN @ + 1 ELSE @,
                  !.messages = IF short THEN Append(@, Msg("height", chk.i, 0)) ELSE @,
                  !.i = @ + 1, !.j = chk.i + 2]
  /\ UNCHANGED <<isect, walk, cls, ext, fill>>

\* validate lines 57-59: the loop is over.
Finish ==
  /\ chk.pc = "loop"
  /\ chk.i > Len(chk.rects)
  /\ chk' = [chk EXCEPT
               !.messages = IF chk.errors = 0 THEN Append(@, Msg("SUCCESS", 0, 0)) ELSE @,
               !.pc = "done"]
  /\ UNCHANGED <<isect, walk, cls, ext, fill>>

InitCheck ==
  /\ chk \in {ValidateStart(ff) : ff \in FormFieldLists}
  /\ isect = Idle
  /\ walk = Idle
  /\ cls = Idle
  /\ ext = Idle
  /\ fill = Idle

NextCheck == PairStep \/ HeightStep \/ Finish

SpecCheck == InitCheck /\ [][NextCheck]_vars

\* _intersects called on a pair of rectangles, in both orders.
CallIntersects ==
  /\ isect.pc = "call"
  /\ isect' = [isect EXCEPT !.pc = "done",
                 !.ab = Intersects(isect.a, isect.b),
                 !.ba = Intersects(isect.b, isect.a)]
  /\ UNCHANGED <<chk, walk, cls, ext, fill>>

InitIntersects ==
  /\ isect \in {[pc |-> "call", a |-> a, b |-> b, ab |-> FALSE, ba |-> FALSE] :
                  a \in OrderedRects, b \in OrderedRects}
  /\ chk = Idle
  /\ walk = Idle
  /\ cls = Idle
  /\ ext = Idle
  /\ fill = Idle

NextIntersects == CallIntersects

SpecIntersects == InitIntersects /\ [][NextIntersects]_vars


(***************************************************************************)
(* fill_fields.py: _full_field_id, lines 12-20.  extract_fields.py holds   *)
(* the same statements at lines 12-21, after a docstring.                  *)
(***************************************************************************)

\* Number of nodes of the largest field tree handed to _full_field_id.
NumNodes == 3

\* The /T entry of a node: missing, the empty string, or a name.
LocalNames == {Absent, Some(""), Some("A"), Some("B"), Some("C")}

\* A field tree is an arena of nodes 1..n, each with its /T and its /Parent
\* (Absent or Some(index)).  In a finite acyclic tree the nodes can be numbered
\* so that a parent comes before its children.
Node(t, parent) == [T |-> t, Parent |-> parent]

AcyclicTrees ==
  UNION {{tree \in [1..n -> [T : LocalNames,
                             Parent : {Absent} \cup {Some(q) : q \in 1..n}]] :
            \A k \in 1..n : tree[k].Parent # Absent => tree[k].Parent[1] < k} :
         n \in 1..NumNodes}

\* The arenas whose /Parent links are arbitrary: a malformed tree may link a
\* node to itself or to one of its descendants.
LinkedTrees ==
  UNION {[1..n -> [T : LocalNames,
                   Parent : {Absent} \cup {Some(q) : q \in 1..n}]] :
         n \in 1..NumNodes}

\* The code sets no limit to the passes of the loop; the model follows a walk
\* for twice as many passes as the tree has nodes, and one more.
PassesFollowed(tree) == 2 * Len(tree) + 1

\* Python truth of node.get("/T"): a missing or empty name is false.
Truthy(name) == name # Absent /\ name[1] # ""

Reversed_not(s) == s

RECURSIVE Reversed(_)
\* reversed(parts)
Reversed(s) ==
  IF s = <<>> THEN <<>> ELSE Append(Reversed(Tail(s)), Head(s))

RECURSIVE Join(_, _)
\* sep.join(parts)
Join(sep, s) ==
  IF s = <<>> THEN ""
  ELSE IF Len(s) = 1 THEN s[1]
  ELSE s[1] \o sep \o Join(sep, Tail(s))

\* _full_field_id lines 16-19: the body of the loop, at node with parts
\* collected so far: the new node and the new parts.
WalkBody(tree, node, parts) ==
  [node |-> tree[node].Parent,
   parts |-> IF Truthy(tree[node].T) THEN Append(parts, tree[node].T[1]) ELSE parts]

\* _full_field_id line 20: ".".join(reversed(parts)) if parts else None
WalkResult(parts) ==
  IF parts # <<>> THEN Some(Join(".", Reversed(parts))) ELSE Absent

RECURSIVE WalkLoop(_, _, _)
\* _full_field_id lines 15-20 from node on
WalkLoop(tree, node, parts) ==
  IF node = Absent THEN WalkResult(parts)
  ELSE LET b == WalkBody(tree, node[1], parts) IN WalkLoop(tree, b.node, b.parts)

\* _full_field_id(annotation) as a function of the tree and the node.
FullFieldId(tree, annotation) == WalkLoop(tree, Some(annotation), <<>>)

\* _full_field_id lines 15-19: one pass of the loop.
WalkStep ==
  /\ walk.pc = "loop"
  /\ walk.node # Absent
  /\ walk.passes < PassesFollowed(walk.tree)
  /\ LET b == WalkBody(walk.tree, walk.node[1], walk.parts)
     IN walk' = [walk EXCEPT !.node = b.node, !.parts = b.parts,
                   !.passes = @ + 1]
  /\ UNCHANGED <<isect, chk, cls, ext, fill>>

\* _full_field_id line 20: the loop is over.
WalkReturn ==
  /\ walk.pc = "loop"
  /\ walk.node = Absent
  /\ walk' = [walk EXCEPT !.pc = "done", !.result = WalkResult(walk.parts)]
  /\ UNCHANGED <<isect, chk, cls, ext, fill>>

\* _full_field_id lines 13-14: the state on entering the loop; passes counts
\* the passes of the loop made so far.
WalkStart(tree, annotation) ==
  [pc |-> "loop", tree |-> tree, annotation |-> annotation,
   node |-> Some(annotation), parts |-> <<>>, passes |-> 0, result |-> Absent]

InitWalk ==
  /\ walk \in {WalkStart(tw[1], tw[2]) :
                 tw \in {<<tr, k>> \in AcyclicTrees \X (1..NumNodes) :
                           k \in DOMAIN tr}}
  /\ isect = Idle
  /\ chk = Idle
  /\ cls = Idle
  /\ ext = Idle
  /\ fill = Idle

NextWalk == WalkStep \/ WalkReturn

SpecWalk == InitWalk /\ [][NextWalk]_vars

InitWalkLinked ==
  /\ walk \in {WalkStart(tw[1], tw[2]) :
                 tw \in {<<tr, k>> \in LinkedTrees \X (1..NumNodes) :
                           k \in DOMAIN tr}}
  /\ isect = Idle
  /\ chk = Idle
  /\ cls = Idle
  /\ ext = Idle
  /\ fill = Idle

\* _full_field_id on any arena, those with a cycle of /Parent links included.
SpecWalkLinked == InitWalkLinked /\ [][NextWalk]_vars

(***************************************************************************)
(* extract_fields.py: _field_dict; fill_fields.py: _get_field_info, the    *)
(* classification of one field without /Kids (lines 34-45)                 *)
(***************************************************************************)

\* Length of the longest /_States_ list of a field.
MaxStates == 3

Off == "/Off"

\* Appearance-state and export tokens.
Tokens == {Off, "/Yes", "/1"}

\* The (value, text) pairs of a choice field's /_States_.
OptionPairs == {<<"a", "Alpha">>, <<"b", "Beta">>}

SeqsUpTo(S, n) == UNION {[1..k -> S] : k \in 0..n}

\* A raw field as reader.get_fields() gives it: /FT (Absent when missing),
\* whether /Kids is non-empty, and /_States_ (empty when missing).
RawField(ft, kids, states) == [FT |-> ft, Kids |-> kids, States |-> states]

FieldTypes == {Absent, Some("/Tx"), Some("/Btn"), Some("/Ch"), Some("/Sig")}

LeafFields ==
  {RawField(ft, FALSE, st) : ft \in FieldTypes \ {Some("/Ch")},
                             st \in SeqsUpTo(Tokens, MaxStates)}
  \cup {RawField(Some("/Ch"), FALSE, st) : st \in SeqsUpTo(OptionPairs, 2)}

\* A descriptor: the keys a script may put in the dict; a key not set is Absent.
Info(fid, type) ==
  [field_id |-> fid, type |-> type, checked_value |-> Absent,
   unchecked_value |-> Absent, choice_options |-> Absent, page |-> Absent,
   rect |-> Absent, radio_options |-> Absent, raised |-> Absent]

\* [{"value": s[0], "text": s[1]} for s in states]
ChoiceOptions(states) ==
  [k \in DOMAIN states |-> [value |-> states[k][1], text |-> states[k][2]]]

\* The states that are not "/Off", in declaration order.
NotOff(states) == SelectSeq(states, LAMBDA t : t # Off)

FieldDict_declared_order(field, field_id) ==
  IF field.FT = Some("/Btn") /\ Len(field.States) = 2
    THEN [Info(field_id, "checkbox") EXCEPT
            !.checked_value = Some(field.States[1]),
            !.unchecked_value = Some(field.States[2])]
    ELSE Info(field_id, "other")

\* extract_fields._field_dict(field, field_id).  next() over an exhausted
\* generator (both states "/Off") raises StopIteration.
FieldDict(field, field_id) ==
  IF field.FT = Some("/Tx") THEN Info(field_id, "text")
  ELSE IF field.FT = Some("/Btn") THEN
    LET states == field.States
        info == Info(field_id, "checkbox")
    IN IF Len(states) = 2
         THEN IF Off \in Range(states)
                THEN IF NotOff(states) = <<>>
                       THEN [info EXCEPT !.raised = Some("StopIteration")]
                       ELSE [info EXCEPT !.checked_value = Some(NotOff(states)[1]),
                                         !.unchecked_value = Some(Off)]
                ELSE [info EXCEPT !.checked_value = Some(states[1]),
                                  !.unchecked_value = Some(states[2])]
         ELSE info
  ELSE IF field.FT = Some("/Ch") THEN
    [Info(field_id, "choice") EXCEPT !.choice_options = Some(ChoiceOptions(field.States))]
  ELSE Info(field_id,
            "unknown (" \o (IF field.FT = Absent THEN "None" ELSE field.FT[1]) \o ")")

\* fill_fields._get_field_info lines 34-45: the info of one field without /Kids.
LeafInfo(field, fid) ==
  IF field.FT = Some("/Btn") THEN
    LET states == field.States
        info == Info(fid, "checkbox")
    IN IF Len(states) = 2
         THEN [info EXCEPT
                 !.checked_value =
                    Some(IF NotOff(states) # <<>> THEN NotOff(states)[1] ELSE states[1]),
                 !.unchecked_value =
                    Some(IF Off \in Range(states) THEN Off ELSE states[2])]
         ELSE info
  ELSE IF field.FT = Some("/Ch") THEN
    [Info(fid, "choice") EXCEPT !.choice_options = Some(ChoiceOptions(field.States))]
  ELSE Info(fid, "text")

\* extract_fields._field_dict called on the field.
CallFieldDict ==
  /\ cls.pc = "call"
  /\ cls.script = "extract_fields"
  /\ cls' = [cls EXCEPT !.pc = "done", !.info = FieldDict(cls.field, "F")]
  /\ UNCHANGED <<isect, chk, walk, ext, fill>>

\* The body of fill_fields._get_field_info's first loop run on the field.
CallLeafInfo ==
  /\ cls.pc = "call"
  /\ cls.script = "fill_fields"
  /\ cls' = [cls EXCEPT !.pc = "done", !.info = LeafInfo(cls.field, "F")]
  /\ UNCHANGED <<isect, chk, walk, ext, fill>>

InitClassify ==
  /\ cls \in {[pc |-> "call", script |-> sc, field |-> f, info |-> Info("F", "")] :
                sc \in {"extract_fields", "fill_fields"}, f \in LeafFields}
  /\ isect = Idle
  /\ chk = Idle
  /\ walk = Idle
  /\ ext = Idle
  /\ fill = Idle

NextClassify == CallFieldDict \/ CallLeafInfo

SpecClassify == InitClassify /\ [][NextClassify]_vars

(***************************************************************************)
(* extract_fields.py: extract_field_info; fill_fields.py: _get_field_info  *)
(***************************************************************************)

\* Number of pages of the largest document.
NumPages == 2

\* Number of annotations of the largest document, all pages together.
MaxAnnots == 2

\* The field tree the annotations of the documents hang in.
DocTree ==
  <<Node(Some("Name"), Absent),
    Node(Some("Sec"), Absent),
    Node(Some("Agree"), Some(2)),
    Node(Some("Grp"), Absent),
    Node(Absent, Some(4)),
    Node(Absent, Absent)>>

\* An annotation: its node in the tree, its /AP (Absent, or Some of a record
\* whose N is Absent or Some of the appearance states in order) and its /Rect
\* (<<>> when missing).
Annot(node, ap, rect) == [node |-> node, AP |-> ap, Rect |-> rect]

Appearance(states) == Some([N |-> Some(states)])

AnnotCatalogue ==
  { Annot(1, Absent, <<0, 0, 10, 30>>),
    Annot(3, Appearance(<<Off, "/Yes">>), <<20, 5, 30, 10>>),
    Annot(5, Appearance(<<"/1", Off>>), <<30, 5, 40, 45>>),
    Annot(5, Appearance(<<Off, "/Yes">>), <<>>),
    Annot(5, Appearance(<<"/1", "/Yes">>), <<0, 40, 10, 50>>),
    Annot(5, Appearance(<<Off>>), <<0, 40, 10, 50>>),
    Annot(5, Some([N |-> Absent]), <<0, 40, 10, 50>>),
    Annot(6, Absent, <<0, 0, 10, 30>>) }

\* reader.get_fields(): field ids in dict order, each with its raw field.
Entry(fid, field) == [fid |-> fid, field |-> field]

FieldsA ==
  <<Entry("Name", RawField(Some("/Tx"), FALSE, <<>>)),
    Entry("Sec.Agree", RawField(Some("/Btn"), FALSE, <<Off, "/Yes">>)),
    Entry("Grp", RawField(Some("/Btn"), TRUE, <<>>))>>

FieldsB ==
  <<Entry("Grp", RawField(Some("/Btn"), TRUE, <<>>)),
    Entry("Zip", RawField(Some("/Tx"), FALSE, <<>>)),
    Entry("Name", RawField(Some("/Ch"), FALSE, <<<<"a", "Alpha">>, <<"b", "Beta">>>>))>>

FieldsC ==
  <<Entry("Name", RawField(Some("/Sig"), FALSE, <<>>)),
    Entry("Grp", RawField(Some("/Tx"), TRUE, <<>>)),
    Entry("Sec.Agree", RawField(Some("/Btn"), FALSE, <<Off, Off>>))>>

FieldsCatalogue == {<<>>, FieldsA, FieldsB, FieldsC}

\* The annotations of a document in the order the two nested loops visit
\* them, each with its page number (page_idx + 1).
PageAnnots ==
  UNION {{pa \in [1..n -> [page : 1..NumPages, ann : AnnotCatalogue]] :
            \A k \in 1..(n - 1) : pa[k].page <= pa[k + 1].page} :
         n \in 0..MaxAnnots}

\* The place of fid in an insertion-ordered dict of infos, 0 when not a key.
Find(infos, fid) ==
  IF \E k \in DOMAIN infos : infos[k].field_id = fid
    THEN CHOOSE k \in DOMAIN infos : infos[k].field_id = fid
    ELSE 0

Keys(infos) == {infos[k].field_id : k \in DOMAIN infos}

\* The fields without /Kids, in dict order.
Leaves(fields) == SelectSeq(fields, LAMBDA e : ~e.field.Kids)

\* extract_fields lines 58-62 and fill_fields lines 29-33: possible_radios.
PossibleRadios(fields) ==
  {fields[k].fid : k \in {q \in DOMAIN fields :
                            fields[q].field.Kids /\ fields[q].field.FT = Some("/Btn")}}

\* extract_fields lines 58-63: by_id after the loop over the fields.
ExtractById(fields) ==
  LET leaves == Leaves(fields)
  IN [k \in DOMAIN leaves |-> FieldDict(leaves[k].field, leaves[k].fid)]

\* fill_fields lines 29-45: by_id after the loop over the fields.
FillById(fields) ==
  LET leaves == Leaves(fields)
  IN [k \in DOMAIN leaves |-> LeafInfo(leaves[k].field, leaves[k].fid)]

\* ann["/AP"]["/N"] raises KeyError when /AP or /N is missing.
Unreadable(ann) == ann.AP = Absent \/ ann.AP[1].N = Absent

\* [v for v in ann["/AP"]["/N"] if v != "/Off"]
OnVals(ann) == NotOff(ann.AP[1].N[1])

IsOption_any(on_vals) == Len(on_vals) >= 1

\* extract_fields line 78, fill_fields line 58: if len(on_vals) == 1
IsOption(on_vals) == Len(on_vals) = 1

\* The radio group of fid with one more option; made on its first option.
AddOption(radios, fid, page, option) ==
  LET at == Find(radios, fid)
      fresh == [Info(fid, "radio_group") EXCEPT !.page = Some(page),
                                                 !.radio_options = Some(<<>>)]
      rs == IF at = 0 THEN Append(radios, fresh) ELSE radios
      q == Find(rs, fid)
  IN [rs EXCEPT ![q].radio_options = Some(Append(@[1], option))]

\* extract_fields lines 69-87: the body of the loop over the annotations, for
\* the annotation ann of page `page`.
ExtractScan(st, page, ann) ==
  LET fid == FullFieldId(DocTree, ann.node)
      at == IF fid = Absent THEN 0 ELSE Find(st.by_id, fid[1])
  IN IF at # 0
       THEN [st EXCEPT !.by_id[at].page = Some(page), !.by_id[at].rect = ann.Rect]
     ELSE IF fid # Absent /\ fid[1] \in st.possible_radios
       THEN IF Unreadable(ann) THEN st
            ELSE IF IsOption(OnVals(ann))
              THEN [st EXCEPT !.radios =
                      AddOption(@, fid[1], page,
                                [value |-> OnVals(ann)[1], rect |-> ann.Rect])]
              ELSE st
     ELSE st

\* fill_fields lines 50-61: the body of the loop over the annotations.
FillScan(st, page, ann) ==
  LET fid == FullFieldId(DocTree, ann.node)
      at == IF fid = Absent THEN 0 ELSE Find(st.by_id, fid[1])
  IN IF at # 0
       THEN [st EXCEPT !.by_id[at].page = Some(page)]
     ELSE IF fid # Absent /\ fid[1] \in st.possible_radios
       THEN IF Unreadable(ann) THEN st
            ELSE IF IsOption(OnVals(ann))
              THEN [st EXCEPT !.radios =
                      AddOption(@, fid[1], page, [value |-> OnVals(ann)[1]])]
              ELSE st
     ELSE st

Located_all(by_id) == by_id

\* extract_fields lines 89-92: the infos that got a page.
Located(by_id) == SelectSeq(by_id, LAMBDA info : info.page # Absent)

\* extract_fields lines 93-94: one warning for each info that got none.
Skipped(by_id) ==
  LET lost == SelectSeq(by_id, LAMBDA info : info.page = Absent)
  IN [k \in DOMAIN lost |-> lost[k].field_id]

SortKey_top(f) ==
  LET own == f.rect
      first == IF f.radio_options = Absent THEN <<>> ELSE f.radio_options[1][1].rect
      r == IF own # <<>> THEN own ELSE IF first # <<>> THEN first ELSE <<0, 0, 0, 0>>
  IN <<IF f.page = Absent THEN 0 ELSE f.page[1], 0 - r[4], r[1]>>

\* extract_fields lines 97-99: sort_key(f).  An empty list is false.
SortKey(f) ==
  LET own == f.rect
      first == IF f.radio_options = Absent THEN <<>> ELSE f.radio_options[1][1].rect
      r == IF own # <<>> THEN own ELSE IF first # <<>> THEN first ELSE <<0, 0, 0, 0>>
  IN <<IF f.page = Absent THEN 0 ELSE f.page[1], 0 - r[2], r[1]>>

\* Python's order of two tuples of three numbers: a < b.
TupleLess(a, b) ==
  \/ a[1] < b[1]
  \/ a[1] = b[1] /\ a[2] < b[2]
  \/ a[1] = b[1] /\ a[2] = b[2] /\ a[3] < b[3]

\* s, sorted, with x put after the elements that are not greater than it.
Insert(s, x) ==
  LET before == {k \in DOMAIN s : ~TupleLess(SortKey(x), SortKey(s[k]))}
      n == IF before = {} THEN 0
           ELSE CHOOSE k \in before : \A q \in before : q <= k
  IN SubSeq(s, 1, n) \o <<x>> \o SubSeq(s, n + 1, Len(s))

RECURSIVE Sorted(_)
\* extract_fields line 101: result.sort(key=sort_key), a stable sort.
Sorted(s) ==
  IF s = <<>> THEN <<>>
  ELSE Insert(Sorted(SubSeq(s, 1, Len(s) - 1)), s[Len(s)])

ExtStart(script, fields, annots) ==
  [pc |-> "fields", script |-> script, fields |-> fields, annots |-> annots,
   k |-> 1, by_id |-> <<>>, possible_radios |-> {}, radios |-> <<>>,
   result |-> <<>>, warnings |-> <<>>]

\* extract_field_info lines 51-63: no fields, or the loop over the fields.
ExtractFields ==
  /\ ext.pc = "fields"
  /\ ext.script = "extract_fields"
  /\ IF ext.fields = <<>>
       THEN ext' = [ext EXCEPT !.pc = "done"]
     ELSE IF \E k \in DOMAIN ExtractById(ext.fields) :
                ExtractById(ext.fields)[k].raised # Absent
       THEN ext' = [ext EXCEPT !.pc = "raised"]
     ELSE ext' = [ext EXCEPT !.pc = "annots", !.by_id = ExtractById(ext.fields),
                    !.possible_radios = PossibleRadios(ext.fields)]
  /\ UNCHANGED <<isect, chk, walk, cls, fill>>

\* extract_field_info lines 67-87: one annotation.
ExtractAnnotation ==
  /\ ext.pc = "annots"
  /\ ext.script = "extract_fields"
  /\ ext.k <= Len(ext.annots)
  /\ ext' = [ExtractScan(ext, ext.annots[ext.k].page, ext.annots[ext.k].ann)
               EXCEPT !.k = @ + 1]
  /\ UNCHANGED <<isect, chk, walk, cls, fill>>

\* extract_field_info lines 89-102: drop, warn, add the radios, sort, return.
ExtractReturn ==
  /\ ext.pc = "annots"
  /\ ext.script = "extract_fields"
  /\ ext.k > Len(ext.annots)
  /\ ext' = [ext EXCEPT !.pc = "done",
               !.result = Sorted(Located(ext.by_id) \o ext.radios),
               !.warnings = Skipped(ext.by_id)]
  /\ UNCHANGED <<isect, chk, walk, cls, fill>>

\* _get_field_info lines 25-45: the loop over the fields.
FillFields ==
  /\ ext.pc = "fields"
  /\ ext.script = "fill_fields"
  /\ ext' = [ext EXCEPT !.pc = "annots", !.by_id = FillById(ext.fields),
               !.possible_radios = PossibleRadios(ext.fields)]
  /\ UNCHANGED <<isect, chk, walk, cls, fill>>

\* _get_field_info lines 48-61: one annotation.
FillAnnotation ==
  /\ ext.pc = "annots"
  /\ ext.script = "fill_fields"
  /\ ext.k <= Len(ext.annots)
  /\ ext' = [FillScan(ext, ext.annots[ext.k].page, ext.annots[ext.k].ann)
               EXCEPT !.k = @ + 1]
  /\ UNCHANGED <<isect, chk, walk, cls, fill>>

\* _get_field_info lines 63-67: page None where none was found, the radios
\* added, return.
FillReturn ==
  /\ ext.pc = "annots"
  /\ ext.script = "fill_fields"
  /\ ext.k > Len(ext.annots)
  /\ ext' = [ext EXCEPT !.pc = "done", !.result = ext.by_id \o ext.radios]
  /\ UNCHANGED <<isect, chk, walk, cls, fill>>

InitFieldModel ==
  /\ ext \in {ExtStart(sc, fs, pa) : sc \in {"extract_fields", "fill_fields"},
                                     fs \in FieldsCatalogue, pa \in PageAnnots}
  /\ isect = Idle
  /\ chk = Idle
  /\ walk = Idle
  /\ cls = Idle
  /\ fill = Idle

NextFieldModel ==
  \/ ExtractFields \/ ExtractAnnotation \/ ExtractReturn
  \/ FillFields \/ FillAnnotation \/ FillReturn

SpecFieldModel == InitFieldModel /\ [][NextFieldModel]_vars

(***************************************************************************)
(* fill_fields.py: _get_field_info as a function, _validate_value, main    *)
(***************************************************************************)

\* Number of entries of the largest field_values.json with several entries.
MaxEntries == 2

RECURSIVE FillScanFrom(_, _, _)
\* fill_fields lines 48-61 from the k-th annotation on.
FillScanFrom(st, annots, k) ==
  IF k > Len(annots) THEN st
  ELSE FillScanFrom(FillScan(st, annots[k].page, annots[k].ann), annots, k + 1)

\* _get_field_info(reader): the dict returned, in key order.
GetFieldInfo(fields, annots) ==
  LET st == FillScanFrom([by_id |-> FillById(fields),
                          possible_radios |-> PossibleRadios(fields),
                          radios |-> <<>>], annots, 1)
  IN st.by_id \o st.radios

\* The documents main is run on: the fields and the annotations by page.
PageAnn(page, ann) == [page |-> page, ann |-> ann]

FillDocs ==
  { [fields |-> FieldsA,
     annots |-> <<PageAnn(1, Annot(1, Absent, <<0, 0, 10, 30>>)),
                  PageAnn(2, Annot(3, Appearance(<<Off, "/Yes">>), <<20, 5, 30, 10>>)),
                  PageAnn(2, Annot(5, Appearance(<<"/1", Off>>), <<30, 5, 40, 45>>)),
                  PageAnn(2, Annot(5, Appearance(<<Off, "/Yes">>), <<>>))>>],
    [fields |-> FieldsB,
     annots |-> <<PageAnn(1, Annot(1, Absent, <<0, 0, 10, 30>>)),
                  PageAnn(1, Annot(5, Appearance(<<Off>>), <<0, 40, 10, 50>>))>>],
    [fields |-> FieldsC,
     annots |-> <<PageAnn(2, Annot(3, Appearance(<<Off, "/Yes">>), <<20, 5, 30, 10>>))>>] }

\* An entry of field_values.json: "value" and "page" may be missing.
ValueEntry(fid, value, page) == [field_id |-> fid, value |-> value, page |-> page]

EntryValues == {Some("x"), Some("/Yes"), Some("/1"), Some("a"), Some(Off)}

EntryPages == {Absent} \cup {Some(p) : p \in 0..(NumPages + 1)}

AllEntries ==
  {ValueEntry(fid, v, p) : fid \in {"Name", "Sec.Agree", "Grp", "Zip", "Nope"},
                           v \in EntryValues \cup {Absent}, p \in EntryPages}

BatchEntries ==
  {ValueEntry(fid, v, p) : fid \in {"Name", "Sec.Agree", "Nope"},
                           v \in {Some("x"), Some("/Yes")},
                           p \in {Absent, Some(0), Some(2)}}

Batches ==
  {<<e>> : e \in AllEntries} \cup SeqsUpTo(BatchEntries, MaxEntries)

\* Python truth of an optional page number: None and 0 are false.
TruthyPage(page) == page # Absent /\ page[1] # 0

OptionValues(options) == {options[k].value : k \in DOMAIN options}

\* fill_fields._validate_value(info, value): the error, Absent for None.
ValidateValue(info, value) ==
  IF info.type = "checkbox"
    THEN IF Some(value) # info.checked_value /\ Some(value) # info.unchecked_value
           THEN Some("invalid checkbox value") ELSE Absent
  ELSE IF info.type = "radio_group"
    THEN IF value \notin OptionValues(IF info.radio_options = Absent THEN <<>>
                                      ELSE info.radio_options[1])
           THEN Some("invalid radio value") ELSE Absent
  ELSE IF info.type = "choice"
    THEN IF value \notin OptionValues(IF info.choice_options = Absent THEN <<>>
                                      ELSE info.choice_options[1])
           THEN Some("invalid choice value") ELSE Absent
  ELSE Absent

\* main lines 105-118: the error lines printed for one entry.
EntryErrors(field_info, entry) ==
  LET at == Find(field_info, entry.field_id)
      info == field_info[at]
  IN IF at = 0 THEN <<"not a valid field ID">>
     ELSE (IF /\ TruthyPage(info.page)
              /\ TruthyPage(entry.page)
              /\ entry.page[1] # info.page[1]
             THEN <<"wrong page">> ELSE <<>>)
          \o (IF entry.value # Absent
                THEN ValidateValue(info, entry.value[1]) ELSE <<>>)

HasError_last(has_error, errors) == errors # <<>>

\* main lines 109, 113, 118: has_error = True on every error printed.
HasError(has_error, errors) == has_error \/ errors # <<>>

\* main lines 125-129: by_page as the set of its (page, field_id, value)
\* items; a later entry replaces the value of an earlier one.
ByPage(values) ==
  LET valued == {k \in DOMAIN values : values[k].value # Absent}
      pg(k) == IF values[k].page = Absent THEN 1 ELSE values[k].page[1]
      last == {k \in valued :
                 \A q \in valued :
                   (pg(q) = pg(k) /\ values[q].field_id = values[k].field_id) => q <= k}
  IN {[page |-> pg(k), field_id |-> values[k].field_id, value |-> values[k].value[1]] :
        k \in last}

\* writer.pages[pg - 1] is a page: pg - 1 is an index of the list, counted
\* from the end when negative.
PageExists(pg, num_pages) == (pg - 1) \in (0 - num_pages)..(num_pages - 1)

\* main lines 94-100: the inputs are read and the field model is built.
ReadInputs ==
  /\ fill.pc = "start"
  /\ fill' = [fill EXCEPT !.pc = "validate",
                !.field_info = GetFieldInfo(fill.doc.fields, fill.doc.annots)]
  /\ UNCHANGED <<isect, chk, walk, cls, ext>>

\* main lines 104-118: the validation of one entry.
ValidateEntry ==
  /\ fill.pc = "validate"
  /\ fill.n <= Len(fill.values)
  /\ LET errors == EntryErrors(fill.field_info, fill.values[fill.n])
     IN fill' = [fill EXCEPT
                   !.has_error = HasError(@, errors),
                   !.printed = @ \o [k \in DOMAIN errors |->
                                       [entry |-> fill.n, error |-> errors[k]]],
                   !.n = @ + 1]
  /\ UNCHANGED <<isect, chk, walk, cls, ext>>

\* main lines 120-121: sys.exit(1).
ExitOnError ==
  /\ fill.pc = "validate"
  /\ fill.n > Len(fill.values)
  /\ fill.has_error
  /\ fill' = [fill EXCEPT !.pc = "exit"]
  /\ UNCHANGED <<isect, chk, walk, cls, ext>>

\* main lines 123-134: the values are grouped by page and put into the
\* writer's copy of the document; an IndexError ends the run.
FillWriter ==
  /\ fill.pc = "validate"
  /\ fill.n > Len(fill.values)
  /\ ~fill.has_error
  /\ LET by_page == ByPage(fill.values)
     IN IF \A item \in by_page : PageExists(item.page, NumPages)
          THEN fill' = [fill EXCEPT !.pc = "write", !.by_page = by_page,
                          !.writer = by_page]
          ELSE fill' = [fill EXCEPT !.pc = "raised", !.by_page = by_page]
  /\ UNCHANGED <<isect, chk, walk, cls, ext>>

\* main lines 136-140: the output document is written.
WriteOutput ==
  /\ fill.pc = "write"
  /\ fill' = [fill EXCEPT !.pc = "done", !.output = Some(fill.writer)]
  /\ UNCHANGED <<isect, chk, walk, cls, ext>>

InitFill ==
  /\ fill \in {[pc |-> "start", doc |-> doc, values |-> values, field_info |-> <<>>,
                n |-> 1, has_error |-> FALSE, printed |-> <<>>, by_page |-> {},
                writer |-> {}, output |-> Absent] :
                 doc \in FillDocs, values \in Batches}
  /\ isect = Idle
  /\ chk = Idle
  /\ walk = Idle
  /\ cls = Idle
  /\ ext = Idle

NextFill == ReadInputs \/ ValidateEntry \/ ExitOnError \/ FillWriter \/ WriteOutput

SpecFill == InitFill /\ [][NextFill]_vars

(***************************************************************************)
(* Claims about check_boxes.py                                             *)
(***************************************************************************)

FailureKinds == {"overlap", "overlap_self", "height"}

NumFailures(messages) ==
  Cardinality({k \in DOMAIN messages : messages[k].kind \in FailureKinds})

Running(frame) == frame.pc # "idle"

\* C3: validate stops after 20 reported failures: the message list never holds
\* more than 20 FAILURE lines (overlap and undersized-entry failures counted
\* together), and once the 20th failure is reported the list ends with the
\* "Too many errors; fix and retry" notice and validate has returned.
C3_StopsAfter20Failures ==
  Running(chk) =>
    /\ NumFailures(chk.messages) <= MaxErrors
    /\ NumFailures(chk.messages) = MaxErrors =>
         /\ chk.pc = "returned"
         /\ chk.messages[Len(chk.messages)].kind = "TooMany"

Max(x, y) == IF x >= y THEN x ELSE y

Min(x, y) == IF x <= y THEN x ELSE y

\* The intersection of a and b has positive extent in both axes.
PositiveExtent(a, b) ==
  /\ Max(a[1], b[1]) < Min(a[3], b[3])
  /\ Max(a[2], b[2]) < Min(a[4], b[4])

\* A rectangle of positive width and height.
Proper(r) == r[1] < r[3] /\ r[2] < r[4]

\* C4 as stated: for all rectangles with x0 <= x1 and y0 <= y1, zero-width and
\* zero-height ones included, _intersects is symmetric and is true exactly when
\* the intersection has positive extent in both axes.
C4_AsStated ==
  isect.pc = "done" =>
    /\ isect.ab = isect.ba
    /\ isect.ab <=> PositiveExtent(isect.a, isect.b)

\* C4 as amended: _intersects is symmetric for all rectangles with x0 <= x1 and
\* y0 <= y1, and for two rectangles of positive width and height it is true
\* exactly when their intersection has positive extent in both axes (so such
\* rectangles sharing only an edge or a corner never overlap).
C4_SymmetricAndPositiveExtent ==
  isect.pc = "done" =>
    /\ isect.ab = isect.ba
    /\ (Proper(isect.a) /\ Proper(isect.b)) =>
         (isect.ab <=> PositiveExtent(isect.a, isect.b))

\* Two unit squares sharing only an edge were compared and found disjoint.
C4_Witness ==
  /\ isect.pc = "done"
  /\ isect.a = <<0, 0, 1, 1>>
  /\ isect.b = <<1, 0, 2, 1>>
  /\ ~isect.ab

\* Rect k of the frame is an entry rectangle of a field that carries
\* entry_text and is lower than the target font size (14 when none is given).
Undersized(frame, k) ==
  LET r == frame.rects[k]
      f == frame.form_fields[r.field]
  IN /\ r.type = "entry"
     /\ f.entry_text # Absent
     /\ LET fs == f.entry_text[1].font_size
        IN (r.rect[4] - r.rect[2]) < (IF fs = Absent THEN 14 ELSE fs[1])

HeightLines(frame, k) ==
  {m \in DOMAIN frame.messages :
     frame.messages[m].kind = "height" /\ frame.messages[m].a = k}

\* C5: an undersized-entry failure is only ever reported for an entry rectangle
\* of a field with entry_text whose height is strictly less than the font size
\* (14 by default), never for a label or a field without entry_text; and when
\* validate runs to its end (the cap did not cut it short) every such entry has
\* exactly one such failure, an entry as high as the font size having none.
C5_UndersizedEntryExactly ==
  Running(chk) =>
    /\ \A k \in DOMAIN chk.rects :
         HeightLines(chk, k) # {} => Undersized(chk, k)
    /\ chk.pc = "done" =>
         \A k \in DOMAIN chk.rects :
           Undersized(chk, k) <=> Cardinality(HeightLines(chk, k)) = 1

\* validate ran to its end below the cap, reported an entry of height 12 under
\* font size 14 and passed an entry of height 14 under font size 14.
C5_Witness ==
  /\ chk.pc = "done"
  /\ chk.errors < MaxErrors
  /\ \E k, l \in DOMAIN chk.rects :
       /\ chk.rects[k].rect = <<10, 40, 20, 52>>
       /\ HeightLines(chk, k) # {}
       /\ chk.rects[l].rect = <<10, 20, 20, 34>>
       /\ chk.form_fields[chk.rects[l].field].entry_text = Text(Some(14))
       /\ HeightLines(chk, l) = {}


(***************************************************************************)
(* Claims about _full_field_id                                             *)
(***************************************************************************)

RECURSIVE RootToLeaf(_, _)
\* The nodes on the chain of node n, the root first.
RootToLeaf(tree, n) ==
  IF tree[n].Parent = Absent THEN <<n>>
  ELSE Append(RootToLeaf(tree, tree[n].Parent[1]), n)

\* The local names found on the chain of n, the root's first (an empty /T is
\* no name).
ChainNames(tree, n) ==
  LET chain == RootToLeaf(tree, n)
      named == SelectSeq(chain, LAMBDA k : tree[k].T \notin {Absent, Some("")})
  IN [k \in DOMAIN named |-> tree[named[k]].T[1]]

RECURSIVE Dotted(_, _)
\* The first k of names, joined with dots.
Dotted(names, k) ==
  IF k = 0 THEN ""
  ELSE IF k = 1 THEN names[1]
  ELSE Dotted(names, k - 1) \o "." \o names[k]

\* C6: on a finite acyclic tree _full_field_id returns the local names on the
\* chain from the node to the root joined with "." in root-to-leaf order (names
\* A, B, C give "A.B.C"); when no node of the chain has a name the result is
\* None, and it is never the empty string.
C6_DottedRootToLeaf ==
  walk.pc = "done" =>
    LET names == ChainNames(walk.tree, walk.annotation)
    IN /\ names # <<>> => walk.result = Some(Dotted(names, Len(names)))
       /\ names = <<>> => walk.result = Absent
       /\ names = <<"A", "B", "C">> => walk.result = Some("A.B.C")
       /\ walk.result # Some("")

\* The walk from a leaf named C under B under the root A has returned "A.B.C".
C6_Witness ==
  /\ walk.pc = "done"
  /\ ChainNames(walk.tree, walk.annotation) = <<"A", "B", "C">>
  /\ walk.result = Some("A.B.C")

(***************************************************************************)
(* Claims about the classifiers                                            *)
(***************************************************************************)

\* C7: for a button field without children whose state list has exactly two
\* entries, both classifiers set: when one of the two is "/Off", checked_value
\* to the other token and unchecked_value to "/Off", in either declaration
\* order; when neither is "/Off", checked_value to the first declared state and
\* unchecked_value to the second.
C7_CheckboxValues ==
  (/\ cls.pc = "done"
   /\ cls.field.FT = Some("/Btn")
   /\ Len(cls.field.States) = 2) =>
    LET s1 == cls.field.States[1]
        s2 == cls.field.States[2]
    IN /\ (s1 = Off /\ s2 # Off) =>
            /\ cls.info.checked_value = Some(s2)
            /\ cls.info.unchecked_value = Some(Off)
       /\ (s1 # Off /\ s2 = Off) =>
            /\ cls.info.checked_value = Some(s1)
            /\ cls.info.unchecked_value = Some(Off)
       /\ (s1 # Off /\ s2 # Off) =>
            /\ cls.info.checked_value = Some(s1)
            /\ cls.info.unchecked_value = Some(s2)

\* _field_dict has classified a button whose states are declared on-token
\* first, "/Off" second.
C7_Witness ==
  /\ cls.pc = "done"
  /\ cls.script = "extract_fields"
  /\ cls.field.FT = Some("/Btn")
  /\ cls.field.States = <<"/Yes", Off>>
  /\ cls.info.checked_value = Some("/Yes")
  /\ cls.info.unchecked_value = Some(Off)

(***************************************************************************)
(* Claims about extract_field_info and _get_field_info                     *)
(***************************************************************************)

\* The identifier an annotation's node resolves to: Absent, or Some(dotted id).
ResolvedId(ann) ==
  LET names == ChainNames(DocTree, ann.node)
  IN IF names = <<>> THEN Absent ELSE Some(Dotted(names, Len(names)))

\* fid is declared as a button-type field with children.
IsRadioParent(fields, fid) ==
  \E k \in DOMAIN fields :
    /\ fields[k].fid = fid
    /\ fields[k].field.FT = Some("/Btn")
    /\ fields[k].field.Kids

\* The non-off tokens of the appearance-state set of ann; empty if unreadable.
OnTokens(ann) ==
  IF ann.AP = Absent \/ ann.AP[1].N = Absent THEN {}
  ELSE {t \in Range(ann.AP[1].N[1]) : t # Off}

\* The annotations scanned so far that are widgets of the radio parent fid
\* with exactly one non-off token, in document order.
OptionWidgets(frame, fid) ==
  SelectSeq([q \in 1..(frame.k - 1) |-> frame.annots[q].ann],
            LAMBDA ann : /\ ResolvedId(ann) = Some(fid)
                         /\ IsRadioParent(frame.fields, fid)
                         /\ Cardinality(OnTokens(ann)) = 1)

\* The options recovered so far for fid; none when there is no group of fid.
OptionsOf(frame, fid) ==
  IF Find(frame.radios, fid) = 0 THEN <<>>
  ELSE frame.radios[Find(frame.radios, fid)].radio_options[1]

Scanning(frame) == frame.pc \in {"annots", "done"} /\ frame.fields # <<>>

\* C8: in both scripts a radio group gets one option for each annotation whose
\* resolved identifier is a button-type field with children and whose
\* appearance states hold exactly one token other than "/Off", that token being
\* the option's value (with the widget's rectangle in the extraction); widgets
\* with no, several or unreadable non-off tokens add nothing; and a radio_group
\* descriptor is in the output only with at least one option.
C8_OneOptionPerOnWidget ==
  Scanning(ext) =>
    /\ \A k \in DOMAIN ext.fields :
         LET fid == ext.fields[k].fid
             widgets == OptionWidgets(ext, fid)
             options == OptionsOf(ext, fid)
         IN /\ Len(options) = Len(widgets)
            /\ \A q \in DOMAIN widgets :
                 /\ {options[q].value} = OnTokens(widgets[q])
                 /\ ext.script = "extract_fields" => options[q].rect = widgets[q].Rect
            /\ (Find(ext.radios, fid) # 0) <=> (widgets # <<>>)
    /\ \A k \in DOMAIN ext.radios : IsRadioParent(ext.fields, ext.radios[k].field_id)
    /\ ext.pc = "done" =>
         \A k \in DOMAIN ext.result :
           ext.result[k].type = "radio_group" =>
             /\ Len(ext.result[k].radio_options[1]) >= 1
             /\ Find(ext.radios, ext.result[k].field_id) # 0

\* Both widgets of the document were options of "Grp", of values "/1" and
\* "/Yes"; the group is in the output with the two options in that order.
C8_Witness ==
  /\ ext.pc = "done"
  /\ \E k \in DOMAIN ext.result :
       /\ ext.result[k].type = "radio_group"
       /\ Len(ext.result[k].radio_options[1]) = 2
       /\ ext.result[k].radio_options[1][1].value = "/1"
       /\ ext.result[k].radio_options[1][2].value = "/Yes"

\* The fields without children that no annotation of the document resolves to.
Unlocated(frame) ==
  {frame.fields[k].fid : k \in {q \in DOMAIN frame.fields :
      /\ ~frame.fields[q].field.Kids
      /\ \A a \in DOMAIN frame.annots :
           ResolvedId(frame.annots[a].ann) # Some(frame.fields[q].fid)}}

\* C9 as stated: a field without children that no annotation resolves to is
\* kept, with page absent, in the output of extract_field_info and in the model
\* built by _get_field_info.
C9_AsStated ==
  ext.pc = "done" =>
    \A fid \in Unlocated(ext) :
      \E k \in DOMAIN ext.result :
        ext.result[k].field_id = fid /\ ext.result[k].page = Absent

\* C9 as amended: such a field is kept, with page None, in the model built by
\* _get_field_info; extract_field_info leaves it out of its output and prints
\* one warning naming it.
C9_KeptByFillDroppedByExtract ==
  ext.pc = "done" =>
    \A fid \in Unlocated(ext) :
      /\ ext.script = "fill_fields" =>
           \E k \in DOMAIN ext.result :
             ext.result[k].field_id = fid /\ ext.result[k].page = Absent
      /\ ext.script = "extract_fields" =>
           /\ fid \notin Keys(ext.result)
           /\ Cardinality({w \in DOMAIN ext.warnings : ext.warnings[w] = fid}) = 1

\* extract_field_info has returned without "Zip", which no annotation shows,
\* and with "Name", which one does.
C9_Witness ==
  /\ ext.pc = "done"
  /\ ext.script = "extract_fields"
  /\ "Zip" \in Unlocated(ext)
  /\ "Zip" \in Range(ext.warnings)
  /\ "Name" \in Keys(ext.result)

\* The rectangle a descriptor is placed by: its own, for a radio group that of
\* its first option, [0, 0, 0, 0] when there is none.
PlaceRect(d) ==
  LET r == IF d.type = "radio_group" THEN d.radio_options[1][1].rect ELSE d.rect
  IN IF r = <<>> THEN <<0, 0, 0, 0>> ELSE r

PageOf(d) == d.page[1]

Extracted(frame) == frame.pc = "done" /\ frame.script = "extract_fields"

\* C10 as stated: consecutive descriptors of the output are in the order page
\* ascending, then top coordinate (y1) descending, then left coordinate (x0)
\* ascending.
C10_AsStated ==
  Extracted(ext) =>
    \A k \in 1..(Len(ext.result) - 1) :
      LET d == ext.result[k]
          e == ext.result[k + 1]
      IN \/ PageOf(d) < PageOf(e)
         \/ PageOf(d) = PageOf(e) /\ PlaceRect(d)[4] > PlaceRect(e)[4]
         \/ /\ PageOf(d) = PageOf(e)
            /\ PlaceRect(d)[4] = PlaceRect(e)[4]
            /\ PlaceRect(d)[1] <= PlaceRect(e)[1]

\* C10 as amended: consecutive descriptors of the output are in the order page
\* ascending, then bottom coordinate (y0, the rectangle's second number)
\* descending, then left coordinate (x0) ascending.
C10_PageBottomLeftOrder ==
  Extracted(ext) =>
    \A k \in 1..(Len(ext.result) - 1) :
      LET d == ext.result[k]
          e == ext.result[k + 1]
      IN \/ PageOf(d) < PageOf(e)
         \/ PageOf(d) = PageOf(e) /\ PlaceRect(d)[2] > PlaceRect(e)[2]
         \/ /\ PageOf(d) = PageOf(e)
            /\ PlaceRect(d)[2] = PlaceRect(e)[2]
            /\ PlaceRect(d)[1] <= PlaceRect(e)[1]

\* The output holds "Sec.Agree" ([20, 5, 30, 10]) before "Name"
\* ([0, 0, 10, 30]) of the same page, though "Name" comes first in the fields.
C10_Witness ==
  /\ Extracted(ext)
  /\ Len(ext.result) = 2
  /\ ext.fields[1].fid = "Name"
  /\ ext.result[1].field_id = "Sec.Agree"
  /\ ext.result[2].field_id = "Name"
  /\ PageOf(ext.result[1]) = PageOf(ext.result[2])

(***************************************************************************)
(* Claims about fill_fields.main                                           *)
(***************************************************************************)

\* The entries an error line was printed for.
Failed(frame) == {frame.printed[k].entry : k \in DOMAIN frame.printed}

\* The write step (lines 123-137) was entered: values were put into the
\* writer or the output document was written.
WriteReached(frame) ==
  \/ frame.pc \in {"write", "done"}
  \/ frame.by_page # {}
  \/ frame.writer # {}
  \/ frame.output # Absent

\* C1: in main every entry of the batch is validated before the write step is
\* taken, and when at least one entry failed validation, wherever it stands in
\* the batch, no value of any entry is put into the writer or the output
\* document: the write step is reached only when no entry failed.
C1_AllOrNothing ==
  Running(fill) =>
    /\ WriteReached(fill) =>
         /\ fill.n > Len(fill.values)
         /\ Failed(fill) = {}
         /\ \A k \in DOMAIN fill.values :
              EntryErrors(fill.field_info, fill.values[k]) = <<>>
    /\ fill.pc = "exit" =>
         /\ fill.n > Len(fill.values)
         /\ Failed(fill) # {}
         /\ fill.writer = {}
         /\ fill.output = Absent

\* A batch whose first entry failed and whose second entry passed was rejected
\* as a whole: main has exited and nothing was written.
C1_Witness ==
  /\ fill.pc = "exit"
  /\ Len(fill.values) = 2
  /\ Failed(fill) = {1}
  /\ fill.values[2].value # Absent
  /\ fill.writer = {}
  /\ fill.output = Absent

\* The descriptor of fid in the model; the model has one.
InfoOf(field_info, fid) ==
  CHOOSE info \in Range(field_info) : info.field_id = fid

\* The rejection rule of the Value Validator for an entry that has a value.
ShouldReject(field_info, entry) ==
  \/ entry.field_id \notin Keys(field_info)
  \/ LET info == InfoOf(field_info, entry.field_id)
         value == entry.value[1]
     IN \/ /\ entry.page # Absent
           /\ info.page # Absent
           /\ entry.page[1] # info.page[1]
        \/ /\ info.type = "checkbox"
           /\ Some(value) \notin {info.checked_value, info.unchecked_value}
        \/ /\ info.type = "radio_group"
           /\ \A k \in DOMAIN info.radio_options[1] :
                info.radio_options[1][k].value # value
        \/ /\ info.type = "choice"
           /\ \A k \in DOMAIN info.choice_options[1] :
                info.choice_options[1][k].value # value

\* C2: an entry (field_id, value, optional page) is rejected exactly when its
\* field_id is not in the model, or it declares a page that differs from the
\* model's known page, or the field is a checkbox and the value is neither
\* checked_value nor unchecked_value, or a radio_group and the value is none of
\* its options, or a choice and the value is none of its options; an entry for
\* a text field with a known id and no page mismatch is accepted.
C2_RejectedExactlyWhen ==
  (Running(fill) /\ fill.pc # "start") =>
    \A k \in 1..(fill.n - 1) :
      fill.values[k].value # Absent =>
        ((k \in Failed(fill)) <=> ShouldReject(fill.field_info, fill.values[k]))

(***************************************************************************)
(* Claims about _full_field_id on malformed trees                          *)
(***************************************************************************)

\* C11: _full_field_id terminates on every input, trees whose /Parent links
\* form a cycle included: the walk up the chain is cut off and returns.  A walk
\* that returns is at a node it has not been at before in every pass, so it
\* makes no more passes than the tree has nodes; a walk that makes one pass
\* more is at a node for the second time, with nothing to make the next passes
\* differ from the last ones.
C11_WalkIsCutOff ==
  Running(walk) => walk.passes <= Len(walk.tree)

=============================================================================
